---------------------------- MODULE Spec2Model ----------------------------
(***************************************************************************)
(* Model of the backup endpoint of components/backup/src/endpoint.rs:      *)
(* the range-to-region planner (seek_backup_range), the per-range worker   *)
(* jobs (dispatch_backup_range) and the dispatcher / collector             *)
(* (handle_backup_task, Runnable::run).                                    *)
(***************************************************************************)
EXTENDS Integers, Sequences, FiniteSets, TLC

(***************************************************************************)
(* Bounds of the model.                                                    *)
(***************************************************************************)
\* raw user keys are the one-byte strings <<1>> .. <<MaxKeyByte>>, and <<>>
MaxKeyByte == 2
\* most non-empty entry batches one scanner yields before the empty one
MaxBatches == 1
\* most regions the directory holds
MaxRegions == 2

(***************************************************************************)
(* Keys.  A raw key is a sequence of bytes.  Key::from_raw encodes it in   *)
(* the memcomparable format: groups of ENC_GROUP_SIZE bytes, the last one  *)
(* padded with zeros, each followed by a marker byte 255 - padding.        *)
(***************************************************************************)
ENC_GROUP_SIZE == 8
ENC_MARKER == 255

RawKeys == {<<>>} \cup {<<b>> : b \in 1..MaxKeyByte}

\* slice comparison of Rust: lexicographic, a proper prefix is smaller
RECURSIVE LexLess(_, _)
LexLess(a, b) ==
    IF b = <<>> THEN FALSE
    ELSE IF a = <<>> THEN TRUE
    ELSE IF Head(a) # Head(b) THEN Head(a) < Head(b)
    ELSE LexLess(Tail(a), Tail(b))

Zeros(n) == [i \in 1..n |-> 0]

\* Key::from_raw(raw).into_encoded()
RECURSIVE encode_bytes(_)
encode_bytes(raw) ==
    IF Len(raw) < ENC_GROUP_SIZE
    THEN raw \o Zeros(ENC_GROUP_SIZE - Len(raw))
             \o <<ENC_MARKER - (ENC_GROUP_SIZE - Len(raw))>>
    ELSE SubSeq(raw, 1, ENC_GROUP_SIZE) \o <<ENC_MARKER>>
             \o encode_bytes(SubSeq(raw, ENC_GROUP_SIZE + 1, Len(raw)))

\* Key::into_raw(): [ok |-> FALSE] when the bytes are no valid encoding
RECURSIVE decode_bytes(_)
decode_bytes(enc) ==
    IF Len(enc) < ENC_GROUP_SIZE + 1 THEN [ok |-> FALSE, raw |-> <<>>]
    ELSE LET marker == enc[ENC_GROUP_SIZE + 1]
             pad    == ENC_MARKER - marker
             group  == SubSeq(enc, 1, ENC_GROUP_SIZE)
             rest   == SubSeq(enc, ENC_GROUP_SIZE + 2, Len(enc))
         IN  IF pad = 0
             THEN LET r == decode_bytes(rest)
                  IN  [ok |-> r.ok, raw |-> group \o r.raw]
             ELSE IF pad < 0 \/ pad > ENC_GROUP_SIZE \/ rest # <<>>
                     \/ SubSeq(group, ENC_GROUP_SIZE - pad + 1, ENC_GROUP_SIZE)
                          # Zeros(pad)
             THEN [ok |-> FALSE, raw |-> <<>>]
             ELSE [ok |-> TRUE, raw |-> SubSeq(group, 1, ENC_GROUP_SIZE - pad)]

\* Option<Key>: None, or Some of an encoded key
None == [some |-> FALSE, key |-> <<>>]
Some(k) == [some |-> TRUE, key |-> k]

\* handle_backup_task: empty raw key -> None, else Some(Key::from_raw(raw))
key_from_task(raw) == IF raw = <<>> THEN None ELSE Some(encode_bytes(raw))

\* key_from_region: empty region key -> None, else Key::from_encoded_slice
key_from_region(region) ==
    [start |-> IF region.start_key = <<>> THEN None ELSE Some(region.start_key),
     end   |-> IF region.end_key = <<>> THEN None ELSE Some(region.end_key)]

\* brange key -> raw bytes of the response:
\* map_or_else(|| vec![], |k| k.into_raw().unwrap())
key_into_raw(k) == IF k.some THEN decode_bytes(k.key) ELSE [ok |-> TRUE, raw |-> <<>>]


(***************************************************************************)
(* Regions and the region directory.                                       *)
(***************************************************************************)
\* the store this endpoint runs on: Endpoint::new(1, ...)
STORE_ID == 1
\* epoch version of every region (metapb::Region::default())
EPOCH_VERSION == 0

\* a boundary 0 is the empty start key, MaxKeyByte + 1 the empty end key,
\* any other boundary b the encoded key of the raw key <<b>>
BoundaryKey(b) ==
    IF b = 0 \/ b = MaxKeyByte + 1 THEN <<>> ELSE encode_bytes(<<b>>)

Roles == {"Leader", "Follower"}

\* metapb::Region with its local role, as RegionInfo::new(r, role)
RegionInfo(id, lo, hi, role) ==
    [region |-> [id        |-> id,
                 start_key |-> BoundaryKey(lo),
                 end_key   |-> BoundaryKey(hi),
                 version   |-> EPOCH_VERSION,
                 peers     |-> {STORE_ID}],
     role   |-> role]

\* the directories: up to n regions in ascending order, pairwise disjoint,
\* gaps allowed, ids counted from id
RECURSIVE DirectoriesFrom(_, _, _)
DirectoriesFrom(from, id, n) ==
    {<<>>} \cup
    (IF n = 0 THEN {}
     ELSE UNION {
            {<<RegionInfo(id, lo, hi, role)>> \o rest :
                rest \in DirectoriesFrom(hi, id + 1, n - 1)} :
            <<lo, hi, role>> \in
                {t \in (from..MaxKeyByte) \X (1..(MaxKeyByte + 1)) \X Roles :
                    t[1] < t[2]}})

Directories == DirectoriesFrom(0, 1, MaxRegions)

\* the regions of iter that contain `from` or have keys larger than `from`:
\* those whose end key is above `from`
RECURSIVE FilterFrom(_, _)
FilterFrom(iter, from) ==
    IF iter = <<>> THEN <<>>
    ELSE LET r == Head(iter).region
         IN  IF r.end_key = <<>> \/ LexLess(from, r.end_key)
             THEN <<Head(iter)>> \o FilterFrom(Tail(iter), from)
             ELSE FilterFrom(Tail(iter), from)

\* BTreeMap::range(from..) over the map start_key -> region (line 388): the
\* regions whose start key is `from` or larger
RECURSIVE RangeFrom(_, _)
RangeFrom(iter, from) ==
    IF iter = <<>> THEN <<>>
    ELSE LET r == Head(iter).region
         IN  IF ~LexLess(r.start_key, from)
             THEN <<Head(iter)>> \o RangeFrom(Tail(iter), from)
             ELSE RangeFrom(Tail(iter), from)

\* the implementations of RegionInfoProvider: MockRegionInfoProvider of the
\* tests (lines 350-391) and the region info accessor of the store
Providers == {"mock", "accessor"}

\* RegionInfoProvider::seek_region: the iterator handed to the callback, in
\* ascending order of start key
seek_region(provider, dir, from) ==
    IF provider = "mock" THEN RangeFrom(dir, from) ELSE FilterFrom(dir, from)

\* how a call of seek_region ends: Ok(()), Err without having run the
\* callback, Err after the callback has run
SeekOutcomes == {"ok", "err_before", "err_after"}

\* MockRegionInfoProvider::seek_region always returns Ok(()) (line 389)
seek_outcomes(provider) ==
    IF provider = "mock" THEN {"ok"} ELSE SeekOutcomes

\* find_peer(region, store_id): Some(peer) or None
find_peer(region, store_id) ==
    IF store_id \in region.peers
    THEN [some |-> TRUE, peer |-> store_id]
    ELSE [some |-> FALSE, peer |-> 0]

(***************************************************************************)
(* seek_backup_range: the planner.                                         *)
(***************************************************************************)
\* clip_end that never clips: the user's end key as it is
clip_end_UserAlways(region, end_key) == end_key

\* lines 118-129: the end key of the range for one region
clip_end(region, end_key) ==
    IF region.end_key = <<>> THEN end_key
    ELSE IF ~end_key.some THEN key_from_region(region).end
    ELSE IF LexLess(end_key.key, region.end_key) THEN end_key
    ELSE key_from_region(region).end

\* clip_start that never clips: the user's start key as it is
clip_start_UserAlways(region, start_key) == start_key

\* lines 130-139: the start key of the range for one region
clip_start(region, start_key) ==
    IF ~start_key.some THEN key_from_region(region).start
    ELSE IF LexLess(start_key.key, region.start_key)
         THEN key_from_region(region).start
    ELSE start_key

\* reached_end that never stops the loop
reached_end_Never(region, end_key) == FALSE

\* lines 108-115: the loop stops at the first region past the end key
reached_end(region, end_key) ==
    end_key.some /\ LexLess(end_key.key, region.start_key)

\* is_leader without the role test
is_leader_Any(info) == info.role \in Roles

\* line 116: only regions this store leads are backed up
is_leader(info) == info.role = "Leader"

\* lines 141-146
BackupRange(region, start_key, end_key, leader) ==
    [start_key |-> start_key, end_key |-> end_key,
     region |-> region, leader |-> leader]

\* lines 107-148: one turn of the loop of the callback, for the region info:
\* the loop breaks, skips the region, panics on find_peer(..).unwrap(), or
\* sends the range of the region
callback_turn(info, store_id, start_key, end_key) ==
    LET region == info.region
    IN  IF reached_end(region, end_key)
        THEN [kind |-> "break"]
        ELSE IF is_leader(info)
        THEN LET ekey   == clip_end(region, end_key)
                 skey   == clip_start(region, start_key)
                 leader == find_peer(region, store_id)
             IN  IF ~leader.some
                 THEN [kind |-> "panic"]
                 ELSE [kind |-> "send",
                       brange |-> BackupRange(region, skey, ekey, leader.peer)]
        ELSE [kind |-> "skip"]

\* lines 105-150: the callback run over the iterator with a receiver that
\* stays alive; sent are the ranges sent on tx so far; panic is set by
\* find_peer(..).unwrap() on None
RECURSIVE seek_callback(_, _, _, _, _)
seek_callback(iter, store_id, start_key, end_key, sent) ==
    IF iter = <<>> THEN [ranges |-> sent, panic |-> FALSE]
    ELSE LET t == callback_turn(Head(iter), store_id, start_key, end_key)
         IN  IF t.kind = "break" THEN [ranges |-> sent, panic |-> FALSE]
             ELSE IF t.kind = "panic" THEN [ranges |-> sent, panic |-> TRUE]
             ELSE IF t.kind = "send"
             THEN seek_callback(Tail(iter), store_id, start_key, end_key,
                                Append(sent, t.brange))
             ELSE seek_callback(Tail(iter), store_id, start_key, end_key, sent)

\* lines 100-102: the encoded key the directory is asked from
seek_from(start_key) == IF start_key.some THEN start_key.key ELSE <<>>

\* the iterator the callback of seek_backup_range is run over: none when the
\* provider fails before running it
seek_iter(provider, seek, dir, start_key) ==
    IF seek = "err_before" THEN <<>>
    ELSE seek_region(provider, dir, seek_from(start_key))

\* seek_backup_range over a directory that yields its regions in descending
\* order
seek_backup_range_Descending(provider, seek, dir, store_id, start_key, end_key) ==
    LET it == seek_iter(provider, seek, dir, start_key)
    IN  seek_callback([n \in DOMAIN it |-> it[Len(it) + 1 - n]], store_id,
                      start_key, end_key, <<>>)

\* lines 93-157: the ranges on the receiver rx that seek_backup_range
\* returns. An Err of seek_region is logged (lines 152-155) and rx is returned
\* with whatever the callback has sent
seek_backup_range(provider, seek, dir, store_id, start_key, end_key) ==
    seek_callback(seek_iter(provider, seek, dir, start_key), store_id,
                  start_key, end_key, <<>>)

\* backup_file_name: "{store_id}_{region_id}_{epoch version}"
backup_file_name(store_id, region) == <<store_id, region.id, region.version>>

(***************************************************************************)
(* Messages.                                                               *)
(***************************************************************************)
\* FileMeta as BackupWriter::save returns it: the key range and the
\* versions are not set yet
File(name) ==
    [name |-> name, start_key |-> <<>>, end_key |-> <<>>,
     start_version |-> 0, end_version |-> 0]

\* BackupResponse::new()
BackupResponse == [start_key |-> <<>>, end_key |-> <<>>, files |-> <<>>, error |-> ""]

\* Option<BackupResponse> on the response sink
SomeResp(r) == [some |-> TRUE, resp |-> r]
NoneResp == [some |-> FALSE, resp |-> BackupResponse]

\* (BackupRange, Result<(Vec<File>, Statistics)>) on the result channel
ResOk(brange, files) == [brange |-> brange, ok |-> TRUE, files |-> files, error |-> ""]
ResErr(brange, e) == [brange |-> brange, ok |-> FALSE, files |-> <<>>, error |-> e]

\* BackupWriter::save: one file when entries were written, none otherwise
saved_files(name, written) == IF written > 0 THEN <<File(name)>> ELSE <<>>

\* fill_files that leaves the versions of the files unset
RECURSIVE fill_files_NoVersions(_, _, _, _, _)
fill_files_NoVersions(files, start_key, end_key, start_ts, end_ts) ==
    IF files = <<>> THEN <<>>
    ELSE <<[Head(files) EXCEPT !.start_key = start_key,
                               !.end_key = end_key]>>
         \o fill_files_NoVersions(Tail(files), start_key, end_key, start_ts, end_ts)

\* lines 268-273: fill key range and ts of every file
RECURSIVE fill_files(_, _, _, _, _)
fill_files(files, start_key, end_key, start_ts, end_ts) ==
    IF files = <<>> THEN <<>>
    ELSE <<[Head(files) EXCEPT !.start_key = start_key,
                               !.end_key = end_key,
                               !.start_version = start_ts,
                               !.end_version = end_ts]>>
         \o fill_files(Tail(files), start_key, end_key, start_ts, end_ts)

\* make_response that leaves the key range of an error response unset
make_response_NoRangeOnError(t, r) ==
    LET start_key == key_into_raw(r.brange.start_key).raw
        end_key   == key_into_raw(r.brange.end_key).raw
    IN  IF r.ok
        THEN [BackupResponse EXCEPT !.start_key = start_key,
                                    !.end_key = end_key,
                                    !.files = fill_files(r.files, start_key, end_key,
                                                         t.start_ts, t.end_ts)]
        ELSE [BackupResponse EXCEPT !.error = r.error]

\* lines 250-286: the response built for one received result
make_response(t, r) ==
    LET start_key == key_into_raw(r.brange.start_key).raw
        end_key   == key_into_raw(r.brange.end_key).raw
        response  == [BackupResponse EXCEPT !.start_key = start_key,
                                            !.end_key = end_key]
    IN  IF r.ok
        THEN [response EXCEPT !.files =
                 fill_files(r.files, start_key, end_key, t.start_ts, t.end_ts)]
        ELSE [response EXCEPT !.error = r.error]

\* UnboundedSender::unbounded_send(m) on a sink holding `sent`: Err, and
\* nothing queued, once the receiver is dropped
unbounded_send(sent, rx_alive, m) ==
    IF rx_alive THEN [ok |-> TRUE, sent |-> Append(sent, m)]
    ELSE [ok |-> FALSE, sent |-> sent]

(***************************************************************************)
(* State.                                                                  *)
(***************************************************************************)
VARIABLES
    region_info,  \* Endpoint.region_info: the directory, a sequence of RegionInfo
    task,         \* the Task being run: raw start_key, end_key, start_ts, end_ts
    pc,           \* where the thread running Runnable::run is
    units,        \* the BackupRanges seek_backup_range sent on its channel
    next,         \* index in units of the range the dispatch loop takes next
    wpc,          \* wpc[i]: where the pool job spawned for units[i] is
    written,      \* written[i]: batches job i has fed to its BackupWriter
    saved,        \* saved[i]: how often job i has called BackupWriter::save
    outcome,      \* outcome[i]: the step of unit i that failed, or "ok"
    res,          \* the result channel (res_tx, res_rx): results not yet received
    res_tx,       \* TRUE while handle_backup_task holds its own sender res_tx
    resp,         \* the messages sent on task.resp, in order
    resp_rx,      \* TRUE while the client holds the receiver of task.resp
    seek_res,     \* the Result of region_info.seek_region (line 103)
    seeked,       \* the iterator seek_region handed to the callback
    cb_panicked,  \* TRUE once the callback has panicked (lines 140, 147)
    cb_at         \* the index in seeked of the region a callback running on a
                  \* thread of the provider takes next; 0 when none is running

vars == <<region_info, task, pc, units, next, wpc, written, saved, outcome,
          res, res_tx, resp, resp_rx, seek_res, seeked, cb_panicked, cb_at>>

Workers == 1..MaxRegions

Tasks ==
    [start_key : RawKeys, end_key : RawKeys, start_ts : {1}, end_ts : {1, 2}]

\* an endpoint over the directory dir that has just received a task; at is
\* the entry point: "run" for Runnable::run, "handle" for handle_backup_task
Received(dirs, at) ==
    /\ region_info \in dirs
    /\ task \in Tasks
    /\ pc = at
    /\ units = <<>>
    /\ next = 1
    /\ wpc = [i \in Workers |-> "idle"]
    /\ written = [i \in Workers |-> 0]
    /\ saved = [i \in Workers |-> 0]
    /\ outcome = [i \in Workers |-> "none"]
    /\ res = <<>>
    /\ res_tx = FALSE
    /\ resp = <<>>
    /\ resp_rx = TRUE
    /\ seek_res = "none"
    /\ seeked = <<>>
    /\ cb_panicked = FALSE
    /\ cb_at = 0

Init == Received(Directories, "run")

(***************************************************************************)
(* Runnable::run and handle_backup_task: the dispatcher thread.            *)
(***************************************************************************)
\* Run without the test of line 298: every task is handled
Run_AlwaysHandle ==
    /\ pc = "run"
    /\ pc' = "handle"
    /\ UNCHANGED <<region_info, task, units, next, wpc, written, saved,
                   outcome, res, res_tx, resp, resp_rx, seek_res, seeked, cb_panicked, cb_at>>

\* lines 296-304: an incremental task gets the sentinel only
Run ==
    /\ pc = "run"
    /\ IF task.start_ts = task.end_ts
       THEN /\ pc' = "handle"
            /\ resp' = resp
       ELSE LET r == unbounded_send(resp, resp_rx, NoneResp)
            IN  /\ resp' = r.sent
                /\ pc' = IF r.ok THEN "done" ELSE "panicked"
    /\ UNCHANGED <<region_info, task, units, next, wpc, written, saved,
                   outcome, res, res_tx, resp_rx, seek_res, seeked, cb_panicked, cb_at>>

\* lines 225-239: the keys of the task, the planner, the result channel.
\* The provider is any implementation of RegionInfoProvider; its call ends
\* in one of seek_outcomes. The callback runs inside seek_region on the
\* thread of the handler (as MockRegionInfoProvider runs it), where it is
\* over when seek_region returns and its panic unwinds the handler, or on a
\* thread of the provider (own_thread): seek_region returns Ok at once and the
\* callback sends its ranges, turn by turn (Callback), while the handler
\* waits on rx in the dispatch loop
HandleSeek ==
    /\ pc = "handle"
    /\ \E provider \in Providers, own_thread \in BOOLEAN :
       \E seek \in seek_outcomes(provider) :
          LET start_key == key_from_task(task.start_key)
              end_key   == key_from_task(task.end_key)
              r == seek_backup_range(provider, seek, region_info, STORE_ID,
                                     start_key, end_key)
          IN  /\ own_thread => provider # "mock" /\ seek = "ok"
              /\ seeked' = seek_iter(provider, seek, region_info, start_key)
              /\ IF own_thread
                 THEN /\ units' = <<>>
                      /\ cb_panicked' = FALSE
                      /\ cb_at' = 1
                 ELSE /\ units' = r.ranges
                      /\ cb_panicked' = r.panic
                      /\ cb_at' = 0
              /\ IF r.panic /\ ~own_thread
                 THEN pc' = "panicked" /\ res_tx' = res_tx
                      /\ seek_res' = seek_res
                 ELSE pc' = "dispatch" /\ res_tx' = TRUE
                      /\ seek_res' = IF seek = "ok" THEN "ok" ELSE "err"
    /\ UNCHANGED <<region_info, task, next, wpc, written, saved, outcome,
                   res, resp, resp_rx>>

\* lines 105-150 on a thread of the provider: one turn of the loop of the
\* callback. At the end of the iterator, or on the break, the callback
\* returns and drops tx. tx.send(..).unwrap() (line 147) panics when the
\* receiver rx is gone: the handler that has panicked drops rx while it
\* unwinds, so a send that races with it passes or fails
Callback ==
    /\ cb_at > 0
    /\ IF cb_at > Len(seeked)
       THEN cb_at' = 0 /\ UNCHANGED <<units, cb_panicked>>
       ELSE LET t == callback_turn(seeked[cb_at], STORE_ID,
                                   key_from_task(task.start_key),
                                   key_from_task(task.end_key))
            IN  IF t.kind = "break"
                THEN cb_at' = 0 /\ UNCHANGED <<units, cb_panicked>>
                ELSE IF t.kind = "skip"
                THEN cb_at' = cb_at + 1 /\ UNCHANGED <<units, cb_panicked>>
                ELSE IF t.kind = "panic"
                THEN cb_at' = 0 /\ cb_panicked' = TRUE /\ units' = units
                ELSE \E rx_alive \in BOOLEAN :
                        /\ pc # "panicked" => rx_alive
                        /\ IF rx_alive
                           THEN /\ units' = Append(units, t.brange)
                                /\ cb_at' = cb_at + 1
                                /\ cb_panicked' = cb_panicked
                           ELSE /\ units' = units
                                /\ cb_at' = 0
                                /\ cb_panicked' = TRUE
    /\ UNCHANGED <<region_info, task, pc, next, wpc, written, saved, outcome,
                   res, res_tx, resp, resp_rx, seek_res, seeked>>

\* lines 240-243 and 170-179: one turn of the dispatch loop; the snapshot
\* is taken on this thread and unwrapped, then the job is spawned
DispatchBackupRange ==
    /\ pc = "dispatch"
    /\ next <= Len(units)
    /\ \E snapshot_ok \in BOOLEAN :
          IF snapshot_ok
          THEN /\ wpc' = [wpc EXCEPT ![next] = "spawned"]
               /\ next' = next + 1
               /\ UNCHANGED <<pc, outcome, res_tx>>
          ELSE /\ outcome' = [outcome EXCEPT ![next] = "snapshot"]
               /\ pc' = "panicked"
               /\ res_tx' = FALSE
               /\ UNCHANGED <<wpc, next>>
    /\ UNCHANGED <<region_info, task, units, written, saved, res, resp,
                   resp_rx, seek_res, seeked, cb_panicked, cb_at>>

\* line 246: the loop over rx ends once the callback has dropped tx and
\* every range is dispatched; then drop(res_tx)
DropResTx ==
    /\ pc = "dispatch"
    /\ cb_at = 0
    /\ next > Len(units)
    /\ res_tx' = FALSE
    /\ pc' = "collect"
    /\ UNCHANGED <<region_info, task, units, next, wpc, written, saved,
                   outcome, res, resp, resp_rx, seek_res, seeked, cb_panicked, cb_at>>

\* SenderAlive that forgets the clones the jobs hold
SenderAlive_OwnOnly == res_tx

\* a sender of the result channel is alive
SenderAlive == res_tx \/ \E i \in Workers : wpc[i] \in {"spawned", "loop"}

\* lines 249-287: one turn of the collector loop
CollectResult ==
    /\ pc = "collect"
    /\ res # <<>>
    /\ LET r == Head(res)
       IN  IF key_into_raw(r.brange.start_key).ok
              /\ key_into_raw(r.brange.end_key).ok
           THEN LET s == unbounded_send(resp, resp_rx,
                                        SomeResp(make_response(task, r)))
                IN  /\ resp' = s.sent
                    /\ pc' = IF s.ok THEN pc ELSE "panicked"
           ELSE /\ resp' = resp
                /\ pc' = "panicked"
    /\ res' = Tail(res)
    /\ UNCHANGED <<region_info, task, units, next, wpc, written, saved,
                   outcome, res_tx, resp_rx, seek_res, seeked, cb_panicked, cb_at>>

\* lines 288-291: the channel is closed and drained; send the sentinel
SendSentinel ==
    /\ pc = "collect"
    /\ res = <<>>
    /\ ~SenderAlive
    /\ LET s == unbounded_send(resp, resp_rx, NoneResp)
       IN  /\ resp' = s.sent
           /\ pc' = IF s.ok THEN "done" ELSE "panicked"
    /\ UNCHANGED <<region_info, task, units, next, wpc, written, saved,
                   outcome, res, res_tx, resp_rx, seek_res, seeked, cb_panicked, cb_at>>

\* the client drops the receiver of task.resp while the task is running (a
\* step of SinkSpec; under Spec the client keeps it)
DropReceiver ==
    /\ resp_rx
    /\ pc \notin {"done", "panicked"}
    /\ resp_rx' = FALSE
    /\ UNCHANGED <<region_info, task, pc, units, next, wpc, written, saved,
                   outcome, res, res_tx, resp, seek_res, seeked, cb_panicked, cb_at>>

(***************************************************************************)
(* The job dispatch_backup_range spawns on the pool for units[i].          *)
(***************************************************************************)
\* tx.send(..).map_err(|_| ()): lost when the receiver is gone
tx_send(m) == IF pc = "panicked" THEN res ELSE Append(res, m)

\* the job ends sending the error of step `step`; its writer is dropped
JobFails(i, step) ==
    /\ res' = tx_send(ResErr(units[i], step))
    /\ outcome' = [outcome EXCEPT ![i] = step]
    /\ wpc' = [wpc EXCEPT ![i] = "finished"]
    /\ written' = [written EXCEPT ![i] = 0]

\* lines 180-198: entry_scanner(..).unwrap(), BackupWriter::new
WorkerOpen(i) ==
    /\ wpc[i] = "spawned"
    /\ \E scanner_ok \in BOOLEAN, writer_ok \in BOOLEAN :
          IF ~scanner_ok
          THEN /\ wpc' = [wpc EXCEPT ![i] = "panicked"]
               /\ outcome' = [outcome EXCEPT ![i] = "scanner"]
               /\ UNCHANGED <<res, written>>
          ELSE IF ~writer_ok
          THEN JobFails(i, "writer")
          ELSE /\ wpc' = [wpc EXCEPT ![i] = "loop"]
               /\ UNCHANGED <<outcome, res, written>>
    /\ UNCHANGED <<region_info, task, pc, units, next, saved, res_tx, resp,
                   resp_rx, seek_res, seeked, cb_panicked, cb_at>>

\* WorkerBatch of a job that saves what it has written when a pull or a
\* write fails
WorkerBatch_SaveOnError(i) ==
    /\ wpc[i] = "loop"
    /\ saved[i] = 0
    /\ \E step \in {"scan", "write"} :
          /\ JobFails(i, step)
          /\ saved' = [saved EXCEPT ![i] = @ + 1]
    /\ UNCHANGED <<region_info, task, pc, units, next, res_tx, resp,
                   resp_rx, seek_res, seeked, cb_panicked, cb_at>>

\* lines 199-213: one turn of the scan loop; the empty batch ends the loop
\* and the job calls BackupWriter::save, which blocks while it uploads
WorkerBatch(i) ==
    /\ wpc[i] = "loop"
    /\ saved[i] = 0
    /\ \E scan \in {"err", "empty", "entries"}, write_ok \in BOOLEAN :
          /\ scan = "entries" => written[i] < MaxBatches
          /\ scan # "entries" => write_ok
          /\ IF scan = "err"
             THEN JobFails(i, "scan") /\ saved' = saved
             ELSE IF scan = "entries"
             THEN IF write_ok
                  THEN /\ written' = [written EXCEPT ![i] = @ + 1]
                       /\ UNCHANGED <<wpc, outcome, res, saved>>
                  ELSE JobFails(i, "write") /\ saved' = saved
             ELSE /\ saved' = [saved EXCEPT ![i] = @ + 1]
                  /\ UNCHANGED <<wpc, outcome, res, written>>
    /\ UNCHANGED <<region_info, task, pc, units, next, res_tx, resp,
                   resp_rx, seek_res, seeked, cb_panicked, cb_at>>

\* lines 213-220: BackupWriter::save returns; the job sends its files, or
\* the error of the save, and ends
WorkerSave(i) ==
    /\ wpc[i] = "loop"
    /\ saved[i] = 1
    /\ \E save_ok \in BOOLEAN :
          IF save_ok
          THEN /\ res' = tx_send(ResOk(units[i],
                          saved_files(backup_file_name(STORE_ID,
                              units[i].region), written[i])))
               /\ outcome' = [outcome EXCEPT ![i] = "ok"]
               /\ wpc' = [wpc EXCEPT ![i] = "finished"]
               /\ written' = [written EXCEPT ![i] = 0]
          ELSE JobFails(i, "save")
    /\ UNCHANGED <<region_info, task, pc, units, next, saved, res_tx, resp,
                   resp_rx, seek_res, seeked, cb_panicked, cb_at>>

Next ==
    \/ Run
    \/ HandleSeek
    \/ DispatchBackupRange
    \/ DropResTx
    \/ CollectResult
    \/ SendSentinel
    \/ \E i \in Workers : WorkerOpen(i)
    \/ \E i \in Workers : WorkerBatch(i)
    \/ Callback
    \/ \E i \in Workers : WorkerSave(i)

Spec == Init /\ [][Next]_vars

\* Endpoint::handle_backup_task (a pub fn, line 224) called on its own, as
\* the tests of the endpoint call it: the test of line 298 is not run, so
\* the task may have any start_ts
HandleNext ==
    \/ HandleSeek
    \/ DispatchBackupRange
    \/ DropResTx
    \/ CollectResult
    \/ SendSentinel
    \/ \E i \in Workers : WorkerOpen(i)
    \/ \E i \in Workers : WorkerBatch(i)
    \/ Callback
    \/ \E i \in Workers : WorkerSave(i)

DirectSpec == Received(Directories, "handle") /\ [][HandleNext]_vars

\* the endpoint with a client that may drop its receiver of task.resp at any
\* moment of the task
SinkNext ==
    \/ Next
    \/ DropReceiver

SinkSpec == Init /\ [][SinkNext]_vars

\* the scheduling of the code: the thread of Runnable::run keeps running
\* and the pool runs every spawned job
FairSpec ==
    /\ Spec
    /\ WF_vars(Run) /\ WF_vars(HandleSeek) /\ WF_vars(DispatchBackupRange)
    /\ WF_vars(Callback)
    /\ WF_vars(DropResTx) /\ WF_vars(CollectResult) /\ WF_vars(SendSentinel)
    /\ \A i \in Workers : /\ WF_vars(WorkerOpen(i))
                          /\ WF_vars(WorkerBatch(i))
                          /\ WF_vars(WorkerSave(i))

(***************************************************************************)
(* The endpoint over directories in which a region reported as Leader may  *)
(* have no peer on this store.                                             *)
(***************************************************************************)
\* the peers of a region: one on this store, or one on another store only
PeerSets == {{STORE_ID}, {STORE_ID + 1}}

\* the directories, with the peers of every led region chosen from PeerSets
PlanDirectories ==
    UNION {{[n \in DOMAIN dir |-> [dir[n] EXCEPT !.region.peers = ps[n]]] :
              ps \in {f \in [DOMAIN dir -> PeerSets] :
                         \A n \in DOMAIN dir :
                            dir[n].role # "Leader" => f[n] = {STORE_ID}}} :
           dir \in Directories}

PlanInit == Received(PlanDirectories, "run")

PlanSpec == PlanInit /\ [][Next]_vars

(***************************************************************************)
(* Vocabulary of the properties: raw key ranges, with the empty start key  *)
(* as minus infinity and the empty end key as plus infinity.               *)
(***************************************************************************)
\* key_into_raw of every key a region or a task of the model holds
DecodedKeys == [k \in {encode_bytes(r) : r \in RawKeys} |-> decode_bytes(k).raw]
RawOf(k) == IF k.some THEN DecodedKeys[k.key] ELSE <<>>
RawStart(region) == RawOf(key_from_region(region).start)
RawEnd(region) == RawOf(key_from_region(region).end)
UnitRaw(u) == <<RawOf(u.start_key), RawOf(u.end_key)>>
RespRaw(m) == <<m.resp.start_key, m.resp.end_key>>

StartLeq(a, b) == a = <<>> \/ (b # <<>> /\ ~LexLess(b, a))
EndLeq(a, b) == b = <<>> \/ (a # <<>> /\ ~LexLess(b, a))
MaxStart(a, b) == IF StartLeq(a, b) THEN b ELSE a
MinEnd(a, b) == IF EndLeq(a, b) THEN a ELSE b
StartBeforeEnd(st, en) == st = <<>> \/ en = <<>> \/ LexLess(st, en)
KeyIn(k, st, en) == (st = <<>> \/ ~LexLess(k, st)) /\ (en = <<>> \/ LexLess(k, en))

\* the region lies wholly in the user range [S, E)
Contained(region, S, E) ==
    StartLeq(S, RawStart(region)) /\ EndLeq(RawEnd(region), E)
\* the region and the user range [S, E) share a key
Intersects(region, S, E) ==
    StartBeforeEnd(MaxStart(S, RawStart(region)), MinEnd(E, RawEnd(region)))

\* the keys the coverage is probed with: one in every gap between boundaries
ProbeKeys == {<<b>> : b \in 0..MaxKeyByte}

ValidTask == task.start_ts = task.end_ts
\* the planner has run: the directory call succeeded and the callback has
\* walked the iterator without panicking
Planned ==
    /\ ValidTask /\ pc \notin {"run", "handle"} /\ seek_res = "ok"
    /\ ~cb_panicked /\ cb_at = 0
\* Runnable::run has returned
Returned == pc = "done"
Sentinels == {k \in DOMAIN resp : ~resp[k].some}
Responses == {k \in DOMAIN resp : resp[k].some}
UnitsOf(region) == {i \in DOMAIN units : units[i].region = region}
ResponsesWith(range) == {k \in Responses : RespRaw(resp[k]) = range}
LedRegions == {j \in DOMAIN region_info : region_info[j].role = "Leader"}
\* the job of unit i has sent its result
JobSent(i) == wpc[i] = "finished"

(***************************************************************************)
(* Properties.                                                             *)
(***************************************************************************)

\* C1: at most one None sentinel is ever on the response sink and it is the
\* last message, so nothing is sent after it; when the handler returns
\* exactly one has been sent, the result channel is drained, no job is
\* left running, and the response of every unit whose job sent a result
\* precedes the sentinel.
C1_SentinelOnceAndLast ==
    /\ Cardinality(Sentinels) <= 1
    /\ \A k \in Sentinels : k = Len(resp)
    /\ Returned =>
          /\ Cardinality(Sentinels) = 1
          /\ res = <<>>
          /\ \A i \in Workers : wpc[i] \notin {"spawned", "loop"}
          /\ \A i \in DOMAIN units :
                JobSent(i) =>
                   \E k \in ResponsesWith(UnitRaw(units[i])) : k < Len(resp)

\* C1 witness: a task returned with two unit responses before the sentinel
C1_Witness == Returned /\ Cardinality(Responses) = 2 /\ ~resp[3].some

\* C2: whatever per-unit failures occur, the None sentinel is eventually
\* sent (under the fair scheduling of the dispatcher thread and the pool).
C2_SentinelEventually == <>(Sentinels # {})

\* C3: when the task has returned, the multiset of (start_key, end_key) of
\* the responses equals the multiset of the ranges of the planned units:
\* each unit has yielded exactly one response.
C3_ResponsesMatchUnits ==
    (Returned /\ ValidTask) =>
       /\ Cardinality(Responses) = Len(units)
       /\ \A i \in DOMAIN units :
             Cardinality(ResponsesWith(UnitRaw(units[i]))) =
             Cardinality({j \in DOMAIN units : UnitRaw(units[j]) = UnitRaw(units[i])})

\* C4: every led region that lies wholly in the user range [S, E) has
\* exactly one unit, whose raw range is the region's range, and once the
\* task has returned with that unit backed up, exactly one successful
\* response with that range; and every probe key of the user range that
\* lies in a led region lies in a unit of that region.
C4_Coverage ==
    Planned =>
       LET S  == task.start_key
           E  == task.end_key
           ur == [i \in DOMAIN units |-> UnitRaw(units[i])]
       IN  \A j \in LedRegions :
              LET X  == region_info[j].region
                  Xs == RawStart(X)
                  Xe == RawEnd(X)
                  us == UnitsOf(X)
              IN  /\ Contained(X, S, E) =>
                        /\ Cardinality(us) = 1
                        /\ \A i \in us :
                              /\ ur[i] = <<Xs, Xe>>
                              /\ (Returned /\ outcome[i] = "ok") =>
                                    Cardinality({k \in ResponsesWith(<<Xs, Xe>>) :
                                                    resp[k].resp.error = ""}) = 1
                  /\ \A k \in ProbeKeys :
                        (KeyIn(k, S, E) /\ KeyIn(k, Xs, Xe)) =>
                           \E i \in us : KeyIn(k, ur[i][1], ur[i][2])

\* C5: every led region that shares keys with the user range [S, E) without
\* lying wholly in it has exactly one unit, with the raw range
\* [max(S, X.start), min(E, X.end)); a bound of the unit is None only when
\* both the user's and the region's bound are open; and once the task has
\* returned and the unit's job has sent its result, one response has that
\* range.
C5_Clipping ==
    Planned =>
       LET S == task.start_key
           E == task.end_key
       IN  \A j \in LedRegions :
              LET X  == region_info[j].region
                  Xs == RawStart(X)
                  Xe == RawEnd(X)
                  range == <<MaxStart(S, Xs), MinEnd(E, Xe)>>
                  us == UnitsOf(X)
              IN  (StartBeforeEnd(range[1], range[2])
                   /\ ~(StartLeq(S, Xs) /\ EndLeq(Xe, E))) =>
                     /\ Cardinality(us) = 1
                     /\ \A i \in us :
                           /\ UnitRaw(units[i]) = range
                           /\ ~units[i].start_key.some <=> (S = <<>> /\ Xs = <<>>)
                           /\ ~units[i].end_key.some <=> (E = <<>> /\ Xe = <<>>)
                           /\ (Returned /\ JobSent(i)) =>
                                 Cardinality(ResponsesWith(range)) = 1

\* C6: every unit, every result and every response belongs to a region whose
\* local role is Leader; and a led region sharing keys with the user range
\* has a unit also when a non-leader region of the range precedes it.
C6_NonLeaderExclusion ==
    /\ \A i \in DOMAIN units :
          \E j \in LedRegions : region_info[j].region = units[i].region
    /\ \A n \in DOMAIN res :
          \E j \in LedRegions : region_info[j].region = res[n].brange.region
    /\ Cardinality(Responses) <= Len(units)
    /\ \A k \in Responses :
          \E i \in DOMAIN units :
             /\ RespRaw(resp[k]) = UnitRaw(units[i])
             /\ \E j \in LedRegions : region_info[j].region = units[i].region
    /\ Planned =>
          \A j \in LedRegions :
             ((\E f \in 1..(j - 1) :
                  /\ region_info[f].role # "Leader"
                  /\ Intersects(region_info[f].region, task.start_key, task.end_key))
              /\ Intersects(region_info[j].region, task.start_key, task.end_key))
             => UnitsOf(region_info[j].region) # {}

\* C6 witness: a returned task over a non-leader region followed by a led
\* one, with the single response of the led region sent
C6_Witness ==
    /\ Returned /\ Planned
    /\ Len(region_info) = 2
    /\ region_info[1].role # "Leader" /\ region_info[2].role = "Leader"
    /\ Intersects(region_info[1].region, task.start_key, task.end_key)
    /\ Len(units) = 1 /\ Cardinality(Responses) = 1

\* the regions the directory has returned for the task
ReturnedRegions == {seeked[n].region : n \in DOMAIN seeked}

\* the user's end key is set and is the start key of the led region X, which
\* the directory returns
EndAtStartOf(X) ==
    /\ task.end_key # <<>>
    /\ RawStart(X) = task.end_key
    /\ X \in ReturnedRegions

\* the unit of X is the degenerate [end, end) and, once the task has returned
\* and the unit's job has sent its result, a response carries that range
DegenerateUnitOf(X) ==
    \E i \in UnitsOf(X) :
       /\ UnitRaw(units[i]) = <<task.end_key, task.end_key>>
       /\ (Returned /\ JobSent(i)) =>
             ResponsesWith(<<task.end_key, task.end_key>>) # {}

\* C7: whenever the user's end key is set and equals the start key of a led
\* region the directory returns, the unit of that region has
\* clipped_start = clipped_end = end and a response is sent for it.
C7_DegenerateUnit ==
    Planned =>
       \A j \in LedRegions :
          EndAtStartOf(region_info[j].region) =>
             DegenerateUnitOf(region_info[j].region)

\* C8: when the task has returned, every unit whose entry scan failed has
\* exactly one response, carrying the error, the unit's clipped raw range and
\* no files; the response of every other unit that sent a result is the one
\* of its own outcome (its range, its own error or none); and the sentinel
\* is the last message.  A failed result never carries files.
C8_ErrorIsolation ==
    /\ \A n \in DOMAIN res : ~res[n].ok => res[n].files = <<>>
    /\ (Returned /\ ValidTask) =>
          /\ ~resp[Len(resp)].some
          /\ \A i \in DOMAIN units :
                JobSent(i) =>
                   /\ Cardinality(ResponsesWith(UnitRaw(units[i]))) = 1
                   /\ \A k \in ResponsesWith(UnitRaw(units[i])) :
                         /\ resp[k].resp.error =
                               (IF outcome[i] = "ok" THEN "" ELSE outcome[i])
                         /\ outcome[i] # "ok" => resp[k].resp.files = <<>>

\* C8 witness: a returned task with one unit whose scan failed and one unit
\* backed up, both responses sent
C8_Witness ==
    /\ Returned
    /\ \E i, v \in DOMAIN units :
          /\ outcome[i] = "scan" /\ outcome[v] = "ok"
          /\ \E k \in ResponsesWith(UnitRaw(units[i])) : resp[k].resp.error = "scan"
          /\ \E k \in ResponsesWith(UnitRaw(units[v])) : resp[k].resp.error = ""

\* C9: a failure to take the snapshot of one unit does not abort the task:
\* the handler does not die, and when the task is over the unit has an
\* error response and the sentinel is sent.
C9_SnapshotFailureIsUnitScoped ==
    \A i \in DOMAIN units :
       outcome[i] = "snapshot" =>
          /\ pc # "panicked"
          /\ Returned =>
                /\ \E k \in ResponsesWith(UnitRaw(units[i])) : resp[k].resp.error # ""
                /\ Sentinels # {}

\* C10: a task with start_ts # end_ts never reaches the planner, spawns no
\* job, sends no result and no response, and returns with the sentinel as
\* the only message (the one other end of Runnable::run is the failed send
\* of that sentinel to a dropped receiver, see C11); a task with
\* start_ts = end_ts that has returned went through the planner and
\* dispatched every unit.
C10_InvalidTask ==
    /\ ~ValidTask =>
          /\ pc \in {"run", "done"} \/ (pc = "panicked" /\ ~resp_rx)
          /\ units = <<>>
          /\ \A i \in Workers : wpc[i] = "idle"
          /\ res = <<>>
          /\ resp = IF Returned THEN <<NoneResp>> ELSE <<>>
    /\ (ValidTask /\ Returned) =>
          /\ seek_res # "none"
          /\ units = seek_callback(seeked, STORE_ID,
                                   key_from_task(task.start_key),
                                   key_from_task(task.end_key), <<>>).ranges
          /\ next = Len(units) + 1

\* C10 witness: a task with start_ts # end_ts, over a directory with a led
\* region, has returned
C10_Witness == ~ValidTask /\ Returned /\ LedRegions # {}

\* C11: a dropped response sink is ignored: once the client has dropped the
\* receiver, no step of Runnable::run that sends on the sink (the sentinel
\* of an incremental task, a per-unit response, the final sentinel) makes
\* the thread fail; it goes on to its normal end.
C11_DroppedSinkIgnored ==
    [][(~resp_rx /\ pc \in {"run", "collect"}) => pc' # "panicked"]_vars

\* C12: when the directory call fails the planner emits no unit: no job is
\* spawned, no result and no response is sent, the handler fails only if
\* the receiver is dropped, and the task returns with the sentinel as its
\* only message; a task whose directory call succeeds and yields no unit
\* returns with the same stream.
C12_PlanFailure ==
    /\ seek_res = "err" =>
          /\ units = <<>>
          /\ \A i \in Workers : wpc[i] = "idle"
          /\ res = <<>>
          /\ Responses = {}
          /\ pc = "panicked" => ~resp_rx
    /\ (Returned /\ ValidTask /\ seek_res = "err") => resp = <<NoneResp>>
    /\ (Returned /\ ValidTask /\ seek_res = "ok" /\ units = <<>>) =>
          resp = <<NoneResp>>

\* C13: every file of a successful response carries the start_key and
\* end_key of its response and the start_ts and end_ts of the task as its
\* versions; an error response carries the raw range of a unit whose job
\* failed with that error, and no files.
C13_Stamping ==
    \A k \in Responses :
       LET r == resp[k].resp
       IN  IF r.error = ""
           THEN \A n \in DOMAIN r.files :
                   /\ r.files[n].start_key = r.start_key
                   /\ r.files[n].end_key = r.end_key
                   /\ r.files[n].start_version = task.start_ts
                   /\ r.files[n].end_version = task.end_ts
           ELSE /\ r.files = <<>>
                /\ \E i \in DOMAIN units :
                      /\ UnitRaw(units[i]) = <<r.start_key, r.end_key>>
                      /\ outcome[i] = r.error

\* C13 witness: handle_backup_task, called with start_ts = 1 and end_ts = 2,
\* has returned with a successful response that holds a file of a range with
\* both keys set, and an error response
C13_Witness ==
    /\ Returned
    /\ task.start_ts = 1 /\ task.end_ts = 2
    /\ \E k, e \in Responses :
          /\ resp[k].resp.error = "" /\ resp[k].resp.files # <<>>
          /\ resp[k].resp.start_key # <<>> /\ resp[k].resp.end_key # <<>>
          /\ resp[e].resp.error # ""

\* the position of a region in the directory
RegionIndex(region) ==
    CHOOSE n \in DOMAIN region_info : region_info[n].region = region

\* a < b for start keys as Option<Key>, None being minus infinity
StartKeyLess(a, b) == b.some /\ (~a.some \/ LexLess(a.key, b.key))

\* C14: the units are emitted in strictly ascending order of their encoded
\* start keys (None first), which is the order of their regions in the
\* directory.
C14_PlannerOrdering ==
    \A i, j \in DOMAIN units :
       i < j =>
          /\ StartKeyLess(units[i].start_key, units[j].start_key)
          /\ RegionIndex(units[i].region) < RegionIndex(units[j].region)

\* C14 witness: two units planned for a range that starts inside the first
\* region
C14_Witness ==
    /\ Planned /\ pc = "dispatch"
    /\ Len(units) = 2
    /\ units[1].start_key = key_from_task(task.start_key)
    /\ task.start_key # <<>> /\ RawStart(units[1].region) # task.start_key

\* no unit is emitted for the region at position j of the directory nor for
\* any later one
NoUnitFrom(j) ==
    \A n \in DOMAIN region_info :
       n >= j => UnitsOf(region_info[n].region) = {}

\* the user's end key is set and precedes the start key of region X
EndBeforeStartOf(X) ==
    /\ task.end_key # <<>>
    /\ LexLess(encode_bytes(task.end_key), X.start_key)

\* C15 as stated: for every region X the directory returns, if the user's
\* end key is set and end <= X.start_key, equality included, the planner
\* stops: no unit is emitted for X or for any later region.
C15_TerminationTest_AsStated ==
    \A j \in DOMAIN region_info :
       LET X == region_info[j].region
       IN  (X \in ReturnedRegions /\ (EndBeforeStartOf(X) \/ EndAtStartOf(X)))
              => NoUnitFrom(j)

\* C15 amended: for every region X the directory returns, if the user's end
\* key is set and end < X.start_key, strictly, the planner stops: no unit
\* is emitted for X or for any later region, in any state of the endpoint.
C15_TerminationTest ==
    \A j \in DOMAIN region_info :
       LET X == region_info[j].region
       IN  (EndBeforeStartOf(X) /\ X \in ReturnedRegions) => NoUnitFrom(j)

\* C15 witness: the planner has returned a unit for a led region that starts
\* at the user's end key, and none for the led region after it
C15_Witness ==
    /\ Planned /\ pc = "dispatch"
    /\ \E j \in LedRegions :
          /\ EndAtStartOf(region_info[j].region)
          /\ UnitsOf(region_info[j].region) # {}
          /\ j + 1 \in LedRegions
          /\ EndBeforeStartOf(region_info[j + 1].region)
          /\ UnitsOf(region_info[j + 1].region) = {}

C17_UnitWithinRegion_AsStated ==
    \A i \in DOMAIN units :
       LET X  == units[i].region
           Xs == RawStart(X)
           Xe == RawEnd(X)
           us == UnitRaw(units[i])[1]
           ue == UnitRaw(units[i])[2]
       IN  /\ StartLeq(Xs, us)
           /\ Xe = <<>> \/ LexLess(us, Xe)
           /\ Xs = <<>> \/ ue = <<>> \/ ~LexLess(ue, Xs)
           /\ Xe = <<>> \/ (ue # <<>> /\ LexLess(ue, Xe))
           /\ ~units[i].start_key.some => X.start_key = <<>>
           /\ ~units[i].end_key.some => X.end_key = <<>>

\* C17 amended: the start of every unit is a key of [region start, region
\* end); the end, an exclusive bound, lies between the region's start and
\* the region's end, both included; and a bound of the unit is None only
\* where the region's own bound is open.
C17_UnitWithinRegion ==
    \A i \in DOMAIN units :
       LET X  == units[i].region
           Xs == RawStart(X)
           Xe == RawEnd(X)
           us == RawOf(units[i].start_key)
           ue == RawOf(units[i].end_key)
       IN  /\ StartLeq(Xs, us)
           /\ Xe = <<>> \/ LexLess(us, Xe)
           /\ EndLeq(ue, Xe)
           /\ Xs = <<>> \/ ue = <<>> \/ ~LexLess(ue, Xs)
           /\ ~units[i].start_key.some => X.start_key = <<>>
           /\ ~units[i].end_key.some => X.end_key = <<>>

\* C17 witness: a unit that starts at the user's start key inside its region
\* and ends at the region's end key, before the user's end
C17_Witness ==
    /\ Planned /\ pc = "dispatch"
    /\ \E i \in DOMAIN units :
          /\ task.start_key # <<>>
          /\ RawStart(units[i].region) # task.start_key
          /\ RawEnd(units[i].region) # <<>>
          /\ task.end_key # RawEnd(units[i].region)
          /\ UnitRaw(units[i]) = <<task.start_key, RawEnd(units[i].region)>>

\* the half-open raw ranges a and b share a key: the greater of their starts
\* lies below the smaller of their ends, and is then a key of both
RangesOverlap(a, b) ==
    StartBeforeEnd(MaxStart(a[1], b[1]), MinEnd(a[2], b[2]))

\* C18: the units of one task are pairwise disjoint as half-open key
\* ranges: no two of them share a key.
C18_UnitsDisjoint ==
    \A i, j \in DOMAIN units :
       i < j =>
          LET a == UnitRaw(units[i])
              b == UnitRaw(units[j])
          IN  ~RangesOverlap(a, b)

\* C18 witness: two adjacent units, neither empty, planned for a range that
\* starts inside the first region
C18_Witness ==
    /\ Planned /\ pc = "dispatch"
    /\ Len(units) = 2
    /\ task.start_key # <<>>
    /\ UnitRaw(units[1])[1] = task.start_key
    /\ UnitRaw(units[1])[2] = UnitRaw(units[2])[1]
    /\ StartBeforeEnd(UnitRaw(units[1])[1], UnitRaw(units[1])[2])
    /\ StartBeforeEnd(UnitRaw(units[2])[1], UnitRaw(units[2])[2])
    /\ UnitRaw(units[2])[2] = <<>>

\* C19: a region reported as Leader that has no peer of this store is
\* skipped: the planner does not fail, emits no unit for it, and every led
\* region of the user range that has a peer of this store still gets its
\* unit.
C19_PeerlessLeaderSkipped ==
    (ValidTask /\ pc \notin {"run", "handle"}) =>
       /\ pc = "panicked" => \E i \in DOMAIN units : outcome[i] = "snapshot"
       /\ cb_panicked => pc = "panicked"
       /\ (seek_res = "ok" /\ cb_at = 0 /\ pc # "panicked") =>
             \A j \in LedRegions :
                LET X == region_info[j].region
                IN  IF find_peer(X, STORE_ID).some
                    THEN Contained(X, task.start_key, task.end_key)
                            => UnitsOf(X) # {}
                    ELSE UnitsOf(X) = {}

\* the unit's start key is greater than its end key
Inverted(u) ==
    /\ u.start_key.some /\ u.end_key.some
    /\ LexLess(UnitRaw(u)[2], UnitRaw(u)[1])

\* C20: for every request, one with start > end included, no unit has its
\* start key after its end key, and no job is spawned for such a unit.
C20_NoInvertedUnit ==
    /\ \A i \in DOMAIN units : ~Inverted(units[i])
    /\ \A i \in DOMAIN units : wpc[i] # "idle" => ~Inverted(units[i])

=============================================================================
